---- MODULE Spec2Model ----
\* Run lifecycle of the flow-run backend service (flow-run-service.ts) and the
\* status poller of the test-flow widget (test-flow-widget.component.ts).
EXTENDS Integers, Sequences, FiniteSets, TLC

\* ------------------------------------------------------------------ bounds
MaxStartCalls == 2
MaxFinishCalls == 2
MaxTime == 1

StartCalls == 1..MaxStartCalls
FinishCalls == 1..MaxFinishCalls
Times == 0..MaxTime

\* ------------------------------------------------------------------ values
Null == "null"
NoTime == -1
NoSuchId == 0
NoRun == [id |-> NoSuchId]
NoError == [code |-> "none", id |-> Null]

\* ExecutionOutputStatus: the two non-terminal members the sources name and
\* two representatives of the remaining (terminal) members.
RUNNING == "RUNNING"
PAUSED == "PAUSED"
SUCCEEDED == "SUCCEEDED"
FAILED == "FAILED"
ExecutionOutputStatus == {RUNNING, PAUSED, SUCCEEDED, FAILED}
NonTerminal == {RUNNING, PAUSED}

FileIds == {"L1", "L2"}
InstanceIds == {Null, "i1"}
FlowVersionIds == {"fv1", "fvX"}
CollectionVersionIds == {"cv1", "cv3", "cvX"}
Payloads == {"pl1"}
ProjectIds == {"p1", "p2"}

\* The external lookup collaborators: what each getOne resolves an id to
\* (Null-record when the id does not resolve).
NoFlowVersion == [id |-> Null]
NoCollectionVersion == [id |-> Null]
NoCollection == [id |-> Null]

flowVersionService_getOne(id) ==
  IF id = "fv1"
  THEN [id |-> "fv1", flowId |-> "f1", displayName |-> "My Flow"]
  ELSE NoFlowVersion

collectionVersionService_getOne(id) ==
  CASE id = "cv1" -> [id |-> "cv1", collectionId |-> "c1", displayName |-> "My Collection"]
    [] id = "cv3" -> [id |-> "cv3", collectionId |-> "c3", displayName |-> "Orphan"]
    [] OTHER -> NoCollectionVersion

collectionService_getOne(id) ==
  IF id = "c1" THEN [id |-> "c1", projectId |-> "p1"] ELSE NoCollection

\* ------------------------------------------------------------------ state
VARIABLES
  store,        \* repo: run id -> FlowRun row
  now,          \* the clock read by new Date()
  st,           \* the start calls: arguments, locals and position
  fin,          \* the finish calls: arguments, result and position
  sideEffects,  \* run id -> the call flowRunSideEffects.start({flowRun, payload})
                \* made for it, and the state of the promise it returned
  got,          \* the last getOne call: [id, result]
  page,         \* the last list call: [projectId, limit, data]
  \* the test-flow widget
  executeTest,  \* executeTest$: "idle", "pending", "next" or "failed"
  currentRun,   \* the run of the shared canvas state, set by setRun / exitRun
  dispatches,   \* the actions dispatched to the shared store, in order
  messages,     \* the messages shown through snackbar.open
  console,      \* the err.status of the errors written by console.error, in order
  checker,      \* instanceRunStatusChecker$: "off", "on", "completed", "errored"
  intervalOn,   \* interval(1500) is running (not yet cut by takeUntil)
  emitted,      \* the number interval(1500) emitted last, modulo 2
  getReq,       \* the instanceRunService.get of the last tick is in flight
  logReq,       \* the loadStateLogs in flight: the instanceRun it belongs to
  exitClicked,  \* testRunSnackbar.instance.exitButtonClicked has fired
  polled,       \* the statuses of the runs instanceRunService.get has delivered, in order
  fetches,      \* number of instanceRunService.get calls issued
  logFetches    \* number of flowService.loadStateLogs calls issued

backendVars == <<store, now, st, fin, sideEffects, got, page>>
uiVars == <<executeTest, currentRun, dispatches, messages, console, checker,
            intervalOn, emitted, getReq, logReq, exitClicked, polled, fetches,
            logFetches>>
vars == <<backendVars, uiVars>>

IdleStart ==
  [pc |-> "idle", instanceId |-> Null, flowVersionId |-> Null,
   collectionVersionId |-> Null, payload |-> Null,
   flowVersion |-> NoFlowVersion, collectionVersion |-> NoCollectionVersion,
   collection |-> NoCollection, savedFlowRun |-> NoRun,
   result |-> NoRun, error |-> NoError]

IdleFinish ==
  [pc |-> "idle", flowRunId |-> NoSuchId, status |-> Null, logsFileId |-> Null,
   result |-> NoRun]

\* The widget before the test button is clicked.
WidgetIdle ==
  /\ executeTest = "idle"
  /\ currentRun = [run |-> NoRun, state |-> Null]
  /\ dispatches = <<>>
  /\ messages = {}
  /\ console = <<>>
  /\ checker = "off"
  /\ intervalOn = FALSE
  /\ emitted = 1
  /\ getReq = FALSE
  /\ logReq = NoRun
  /\ exitClicked = FALSE
  /\ polled = <<>>
  /\ fetches = 0
  /\ logFetches = 0

Init ==
  /\ WidgetIdle
  /\ store = <<>>
  /\ now = 0
  /\ st = [c \in StartCalls |-> IdleStart]
  /\ fin = [c \in FinishCalls |-> IdleFinish]
  /\ sideEffects = <<>>
  /\ got = [id |-> NoSuchId, result |-> NoRun]
  /\ page = [projectId |-> Null, limit |-> 0, data |-> <<>>]

\* new Date(): the clock has advanced by some amount since it was last read.
Date == now..MaxTime

\* ------------------------------------------------------------------ repo
\* apId(): a fresh id, never NoSuchId and never the id of a stored row.
apId(s) == Cardinality(DOMAIN s) + 1

\* repo.findOneBy({id})
findOneBy(s, id) == IF id \in DOMAIN s THEN s[id] ELSE NoRun

\* repo.save(flowRun): inserts the row; the columns the partial entity leaves
\* out are null, created is assigned by the store.
save(s, flowRun, t) ==
  [i \in DOMAIN s \cup {flowRun.id} |->
     IF i = flowRun.id
     THEN [id |-> flowRun.id,
           instanceId |-> flowRun.instanceId,
           projectId |-> flowRun.projectId,
           collectionId |-> flowRun.collectionId,
           flowId |-> flowRun.flowId,
           flowVersionId |-> flowRun.flowVersionId,
           collectionVersionId |-> flowRun.collectionVersionId,
           flowDisplayName |-> flowRun.flowDisplayName,
           collectionDisplayName |-> flowRun.collectionDisplayName,
           status |-> flowRun.status,
           startTime |-> flowRun.startTime,
           finishTime |-> NoTime,
           logsFileId |-> Null,
           created |-> t]
     ELSE s[i]]

\* Mutants of update: one that leaves the status column out, one that leaves
\* the logs column out, one that inserts the row when there is none.
update_KeepsStatus(s, id, logsFileId, status, finishTime) ==
  [i \in DOMAIN s |->
     IF i = id
     THEN [s[i] EXCEPT !.logsFileId = logsFileId, !.finishTime = finishTime]
     ELSE s[i]]

update_DropsLogs(s, id, logsFileId, status, finishTime) ==
  [i \in DOMAIN s |->
     IF i = id
     THEN [s[i] EXCEPT !.status = status, !.finishTime = finishTime]
     ELSE s[i]]

update_Upsert(s, id, logsFileId, status, finishTime) ==
  [i \in DOMAIN s \cup {id} |->
     IF i = id
     THEN IF id \in DOMAIN s
          THEN [s[i] EXCEPT !.logsFileId = logsFileId, !.status = status,
                            !.finishTime = finishTime]
          ELSE [id |-> id, logsFileId |-> logsFileId, status |-> status,
                finishTime |-> finishTime]
     ELSE s[i]]

\* A variant in which the update also restarts the run at the finish time.
update_ResetsStartTime(s, id, logsFileId, status, finishTime) ==
  [i \in DOMAIN s |->
     IF i = id
     THEN [s[i] EXCEPT !.logsFileId = logsFileId, !.status = status,
                       !.finishTime = finishTime, !.startTime = finishTime]
     ELSE s[i]]

\* repo.update(id, {logsFileId, status, finishTime}): changes the three
\* columns of the row with that id, and nothing when there is no such row.
update(s, id, logsFileId, status, finishTime) ==
  [i \in DOMAIN s |->
     IF i = id
     THEN [s[i] EXCEPT !.logsFileId = logsFileId, !.status = status,
                       !.finishTime = finishTime]
     ELSE s[i]]

\* flowRunService.getOne
getOne(s, id) == findOneBy(s, id)

GetOneCall(id) ==
  /\ got' = [id |-> id, result |-> getOne(store, id)]
  /\ UNCHANGED <<store, now, st, fin, sideEffects, page>>

\* ------------------------------------------------------------------ start
NotFoundCodes ==
  {"FLOW_VERSION_NOT_FOUND", "COLLECTION_VERSION_NOT_FOUND", "COLLECTION_NOT_FOUND"}
SideEffectError == [code |-> "SIDE_EFFECT_FAILED", id |-> Null]

\* A caller invokes start({instanceId, flowVersionId, collectionVersionId, payload}).
\* Call slots are taken in order.
StartCall(c, instanceId, flowVersionId, collectionVersionId, payload) ==
  /\ st[c].pc = "idle"
  /\ \A d \in StartCalls : d < c => st[d].pc # "idle"
  /\ st' = [st EXCEPT ![c] = [@ EXCEPT !.pc = "getFlowVersion",
                                        !.instanceId = instanceId,
                                        !.flowVersionId = flowVersionId,
                                        !.collectionVersionId = collectionVersionId,
                                        !.payload = payload]]
  /\ UNCHANGED <<store, now, fin, sideEffects, got, page>>

\* getFlowVersionOrThrow(flowVersionId)
getFlowVersionOrThrow(c) ==
  /\ st[c].pc = "getFlowVersion"
  /\ LET flowVersion == flowVersionService_getOne(st[c].flowVersionId) IN
       st' = [st EXCEPT ![c] =
                IF flowVersion = NoFlowVersion
                THEN [@ EXCEPT !.pc = "threw",
                               !.error = [code |-> "FLOW_VERSION_NOT_FOUND",
                                          id |-> st[c].flowVersionId]]
                ELSE [@ EXCEPT !.pc = "getCollectionVersion",
                               !.flowVersion = flowVersion]]
  /\ UNCHANGED <<store, now, fin, sideEffects, got, page>>

\* getCollectionVersionOrThrow(collectionVersionId)
getCollectionVersionOrThrow(c) ==
  /\ st[c].pc = "getCollectionVersion"
  /\ LET collectionVersion ==
           collectionVersionService_getOne(st[c].collectionVersionId) IN
       st' = [st EXCEPT ![c] =
                IF collectionVersion = NoCollectionVersion
                THEN [@ EXCEPT !.pc = "threw",
                               !.error = [code |-> "COLLECTION_VERSION_NOT_FOUND",
                                          id |-> st[c].collectionVersionId]]
                ELSE [@ EXCEPT !.pc = "getCollection",
                               !.collectionVersion = collectionVersion]]
  /\ UNCHANGED <<store, now, fin, sideEffects, got, page>>

\* Mutant of getCollectionOrThrow: the null check is missing.
getCollectionOrThrow_Unchecked(c) ==
  /\ st[c].pc = "getCollection"
  /\ LET collection == collectionService_getOne(st[c].collectionVersion.collectionId) IN
       st' = [st EXCEPT ![c] =
                [@ EXCEPT !.pc = "save",
                          !.collection = IF collection = NoCollection
                                         THEN [id |-> Null, projectId |-> Null]
                                         ELSE collection]]
  /\ UNCHANGED <<store, now, fin, sideEffects, got, page>>

\* getCollectionOrThrow(collectionVersion.collectionId)
getCollectionOrThrow(c) ==
  /\ st[c].pc = "getCollection"
  /\ LET collection == collectionService_getOne(st[c].collectionVersion.collectionId) IN
       st' = [st EXCEPT ![c] =
                IF collection = NoCollection
                THEN [@ EXCEPT !.pc = "threw",
                               !.error = [code |-> "COLLECTION_NOT_FOUND",
                                          id |-> st[c].collectionVersion.collectionId]]
                ELSE [@ EXCEPT !.pc = "save", !.collection = collection]]
  /\ UNCHANGED <<store, now, fin, sideEffects, got, page>>

\* Mutant of NewFlowRun: projectId is taken from the collection version.
NewFlowRun_ProjectOfVersion(id, instanceId, flowVersion, collectionVersion, collection, t) ==
  [id |-> id,
   instanceId |-> instanceId,
   projectId |-> collectionVersion.collectionId,
   collectionId |-> collectionVersion.collectionId,
   flowId |-> flowVersion.flowId,
   flowVersionId |-> flowVersion.id,
   collectionVersionId |-> collectionVersion.id,
   flowDisplayName |-> flowVersion.displayName,
   collectionDisplayName |-> collectionVersion.displayName,
   status |-> RUNNING,
   startTime |-> t]

\* const flowRun: Partial<FlowRun> = {...}
NewFlowRun(id, instanceId, flowVersion, collectionVersion, collection, t) ==
  [id |-> id,
   instanceId |-> instanceId,
   projectId |-> collection.projectId,
   collectionId |-> collectionVersion.collectionId,
   flowId |-> flowVersion.flowId,
   flowVersionId |-> flowVersion.id,
   collectionVersionId |-> collectionVersion.id,
   flowDisplayName |-> flowVersion.displayName,
   collectionDisplayName |-> collectionVersion.displayName,
   status |-> RUNNING,
   startTime |-> t]

\* Mutant of StartSave: the save is not awaited, the row is not yet written
\* when start goes on.
StartSave_NotAwaited(c) ==
  /\ st[c].pc = "save"
  /\ \E t \in now..MaxTime :
       LET flowRun == NewFlowRun(apId(store), st[c].instanceId, st[c].flowVersion,
                                 st[c].collectionVersion, st[c].collection, t) IN
         /\ now' = t
         /\ st' = [st EXCEPT ![c] =
                     [@ EXCEPT !.pc = "sideEffect",
                               !.savedFlowRun = save(store, flowRun, t)[flowRun.id]]]
  /\ UNCHANGED <<store, fin, sideEffects, got, page>>

\* const savedFlowRun = await repo.save(flowRun)
StartSave(c) ==
  /\ st[c].pc = "save"
  /\ \E t \in Date :
       LET flowRun == NewFlowRun(apId(store), st[c].instanceId, st[c].flowVersion,
                                 st[c].collectionVersion, st[c].collection, t)
           saved == save(store, flowRun, t) IN
         /\ now' = t
         /\ store' = saved
         /\ st' = [st EXCEPT ![c] = [@ EXCEPT !.pc = "sideEffect",
                                              !.savedFlowRun = saved[flowRun.id]]]
  /\ UNCHANGED <<fin, sideEffects, got, page>>

\* flowRunSideEffects.start({flowRun, payload}): the begin-execution side
\* effect is handed the run and the payload; its promise is pending.
Dispatch(effects, flowRun, payload) ==
  [i \in DOMAIN effects \cup {flowRun.id} |->
     IF i = flowRun.id
     THEN [flowRun |-> flowRun, payload |-> payload, promise |-> "pending"]
     ELSE effects[i]]

Settle(effects, id, outcome) ==
  [i \in DOMAIN effects |->
     IF i = id THEN [effects[i] EXCEPT !.promise = outcome] ELSE effects[i]]

\* Mutants of StartSideEffectRejected: one that deletes the run again, one
\* that swallows the rejection and returns the run.
StartSideEffectRejected_Rollback(c) ==
  /\ st[c].pc = "awaitSideEffect"
  /\ store' = [i \in DOMAIN store \ {st[c].savedFlowRun.id} |-> store[i]]
  /\ sideEffects' = [sideEffects EXCEPT ![st[c].savedFlowRun.id].promise = "rejected"]
  /\ st' = [st EXCEPT ![c] = [@ EXCEPT !.pc = "threw",
                                        !.error = [code |-> "SIDE_EFFECT_FAILED",
                                                   id |-> Null]]]
  /\ UNCHANGED <<now, fin, got, page>>

StartSideEffectRejected_Swallowed(c) ==
  /\ st[c].pc = "awaitSideEffect"
  /\ sideEffects' = [sideEffects EXCEPT ![st[c].savedFlowRun.id].promise = "rejected"]
  /\ st' = [st EXCEPT ![c] = [@ EXCEPT !.pc = "returned",
                                        !.result = st[c].savedFlowRun]]
  /\ UNCHANGED <<store, now, fin, got, page>>

\* flowRunSideEffects.start({flowRun: savedFlowRun, payload}) is called ...
StartSideEffect(c) ==
  /\ st[c].pc = "sideEffect"
  /\ sideEffects' = Dispatch(sideEffects, st[c].savedFlowRun, st[c].payload)
  /\ st' = [st EXCEPT ![c] = [@ EXCEPT !.pc = "awaitSideEffect"]]
  /\ UNCHANGED <<store, now, fin, got, page>>

\* ... and awaited: its promise resolves, and start returns savedFlowRun,
StartSideEffectResolved(c) ==
  /\ st[c].pc = "awaitSideEffect"
  /\ sideEffects' = Settle(sideEffects, st[c].savedFlowRun.id, "resolved")
  /\ st' = [st EXCEPT ![c] = [@ EXCEPT !.pc = "returned",
                                        !.result = st[c].savedFlowRun]]
  /\ UNCHANGED <<store, now, fin, got, page>>

\* or it rejects, and the rejection leaves start through the await.
StartSideEffectRejected(c) ==
  /\ st[c].pc = "awaitSideEffect"
  /\ sideEffects' = Settle(sideEffects, st[c].savedFlowRun.id, "rejected")
  /\ st' = [st EXCEPT ![c] = [@ EXCEPT !.pc = "threw", !.error = SideEffectError]]
  /\ UNCHANGED <<store, now, fin, got, page>>

\* The steps of a start call after its invocation.
StartStep(c) ==
  \/ getFlowVersionOrThrow(c)
  \/ getCollectionVersionOrThrow(c)
  \/ getCollectionOrThrow(c)
  \/ StartSave(c)
  \/ StartSideEffect(c)
  \/ StartSideEffectResolved(c)
  \/ StartSideEffectRejected(c)

\* ------------------------------------------------------------------ finish
\* The ids a caller can pass: those of stored runs, or one no run has.
KnownIds == DOMAIN store \cup {NoSuchId}

FinishCall(c, flowRunId, status, logsFileId) ==
  /\ fin[c].pc = "idle"
  /\ \A d \in FinishCalls : d < c => fin[d].pc # "idle"
  /\ fin' = [fin EXCEPT ![c] = [@ EXCEPT !.pc = "update", !.flowRunId = flowRunId,
                                          !.status = status,
                                          !.logsFileId = logsFileId]]
  /\ UNCHANGED <<store, now, st, sideEffects, got, page>>

\* await repo.update(flowRunId, {logsFileId, status, finishTime: new Date()})
FinishUpdate(c) ==
  /\ fin[c].pc = "update"
  /\ \E t \in Date :
       /\ now' = t
       /\ store' = update(store, fin[c].flowRunId, fin[c].logsFileId, fin[c].status, t)
  /\ fin' = [fin EXCEPT ![c] = [@ EXCEPT !.pc = "getOne"]]
  /\ UNCHANGED <<st, sideEffects, got, page>>

\* A variant in which finish returns the run with the status and the logs
\* reference of its own call.
FinishGetOne_OwnValues(c) ==
  /\ fin[c].pc = "getOne"
  /\ fin' = [fin EXCEPT ![c] = [@ EXCEPT
       !.pc = "returned",
       !.result = IF fin[c].flowRunId \in DOMAIN store
                  THEN [store[fin[c].flowRunId] EXCEPT
                          !.status = fin[c].status,
                          !.logsFileId = fin[c].logsFileId]
                  ELSE NoRun]]
  /\ UNCHANGED <<store, now, st, sideEffects, got, page>>

\* return await this.getOne({id: flowRunId})
FinishGetOne(c) ==
  /\ fin[c].pc = "getOne"
  /\ fin' = [fin EXCEPT ![c] = [@ EXCEPT !.pc = "returned",
                                          !.result = getOne(store, fin[c].flowRunId)]]
  /\ UNCHANGED <<store, now, st, sideEffects, got, page>>

Finish(c) ==
  \/ \E flowRunId \in KnownIds, status \in ExecutionOutputStatus,
        logsFileId \in FileIds :
       FinishCall(c, flowRunId, status, logsFileId)
  \/ FinishUpdate(c)
  \/ FinishGetOne(c)

\* ------------------------------------------------------------------ list
MaxLimit == 2
Limits == 1..MaxLimit

\* A Cursor is null or names a position of the listing and a direction.
Cursors ==
  {[kind |-> "none", at |-> NoTime]} \cup
  {[kind |-> k, at |-> t] : k \in {"next", "prev"}, t \in Times}

\* paginationHelper.decodeCursor(cursor)
decodeCursor(cursor) ==
  [nextCursor |-> IF cursor.kind = "next" THEN cursor.at ELSE NoTime,
   previousCursor |-> IF cursor.kind = "prev" THEN cursor.at ELSE NoTime]

\* Mutant of ListQuery: the instance-id condition is missing.
ListQuery_AnyInstance(s, projectId) ==
  {i \in DOMAIN s : s[i].projectId = projectId}

\* repo.createQueryBuilder("flow_run").where({projectId})
\*     .andWhere("flow_run.instanceId is not null")
ListQuery(s, projectId) ==
  {i \in DOMAIN s : s[i].projectId = projectId /\ s[i].instanceId # Null}

\* Order.DESC on the pagination key "created" (ties by id).
Before(s, i, j) ==
  \/ s[i].created > s[j].created
  \/ s[i].created = s[j].created /\ i > j

RECURSIVE SortDesc(_, _)
SortDesc(s, ids) ==
  IF ids = {} THEN <<>>
  ELSE LET first == CHOOSE i \in ids : \A j \in ids \ {i} : Before(s, i, j)
       IN <<s[first]>> \o SortDesc(s, ids \ {first})

\* paginator.paginate(query): the rows of the query past the cursor, in
\* descending order of created, limit of them at most, nearest the cursor.
paginate(s, ids, limit, afterCursor, beforeCursor) ==
  LET selected ==
        IF afterCursor # NoTime THEN {i \in ids : s[i].created < afterCursor}
        ELSE IF beforeCursor # NoTime THEN {i \in ids : s[i].created > beforeCursor}
        ELSE ids
      rows == SortDesc(s, selected)
      n == Len(rows)
  IN IF n <= limit THEN rows
     ELSE IF afterCursor = NoTime /\ beforeCursor # NoTime
          THEN SubSeq(rows, n - limit + 1, n)
          ELSE SubSeq(rows, 1, limit)

\* flowRunService.list({projectId, cursor, limit})
list(s, projectId, cursor, limit) ==
  LET decodedCursor == decodeCursor(cursor) IN
    paginate(s, ListQuery(s, projectId), limit,
             decodedCursor.nextCursor, decodedCursor.previousCursor)

ListCall(projectId, cursor, limit) ==
  /\ page' = [projectId |-> projectId, limit |-> limit,
              data |-> list(store, projectId, cursor, limit)]
  /\ UNCHANGED <<store, now, st, fin, sideEffects, got>>

\* ------------------------------------------------------------------ specifications
\* The start calls, with getOne calls between their steps.
Next ==
  \/ UNCHANGED uiVars /\ \E c \in StartCalls, instanceId \in InstanceIds,
        flowVersionId \in FlowVersionIds,
        collectionVersionId \in CollectionVersionIds, payload \in Payloads :
       StartCall(c, instanceId, flowVersionId, collectionVersionId, payload)
  \/ UNCHANGED uiVars /\ \E c \in StartCalls : StartStep(c)
  \/ UNCHANGED uiVars /\ \E id \in KnownIds : GetOneCall(id)

Spec == Init /\ [][Next]_vars

\* The start calls whose lookups resolve, up to the save of their run, with
\* list calls between their steps.
NextList ==
  \/ UNCHANGED uiVars /\ \E c \in StartCalls, instanceId \in InstanceIds :
       StartCall(c, instanceId, "fv1", "cv1", "pl1")
  \/ UNCHANGED uiVars /\ \E c \in StartCalls :
         \/ getFlowVersionOrThrow(c)
         \/ getCollectionVersionOrThrow(c)
         \/ getCollectionOrThrow(c)
         \/ StartSave(c)
  \/ UNCHANGED uiVars /\ \E projectId \in ProjectIds, cursor \in Cursors, limit \in Limits :
       ListCall(projectId, cursor, limit)

SpecList == Init /\ [][NextList]_vars

\* The finish calls, on the store that the first start call has returned
\* from: start("i1", "fv1", "cv1", "pl1"), its run saved at time t.
StartedRun(t) ==
  save(<<>>, NewFlowRun(apId(<<>>), "i1", flowVersionService_getOne("fv1"),
                        collectionVersionService_getOne("cv1"),
                        collectionService_getOne("c1"), t), t)[apId(<<>>)]

ReturnedStart(t) ==
  [pc |-> "returned", instanceId |-> "i1", flowVersionId |-> "fv1",
   collectionVersionId |-> "cv1", payload |-> "pl1",
   flowVersion |-> flowVersionService_getOne("fv1"),
   collectionVersion |-> collectionVersionService_getOne("cv1"),
   collection |-> collectionService_getOne("c1"),
   savedFlowRun |-> StartedRun(t), result |-> StartedRun(t), error |-> NoError]

InitFinish ==
  \E t \in Times :
    /\ WidgetIdle
    /\ store = save(<<>>, StartedRun(t), t)
    /\ now = t
    /\ st = [c \in StartCalls |-> IF c = 1 THEN ReturnedStart(t) ELSE IdleStart]
    /\ fin = [c \in FinishCalls |-> IdleFinish]
    /\ sideEffects = Settle(Dispatch(<<>>, StartedRun(t), "pl1"),
                            StartedRun(t).id, "resolved")
    /\ got = [id |-> NoSuchId, result |-> NoRun]
    /\ page = [projectId |-> Null, limit |-> 0, data |-> <<>>]

NextFinish == UNCHANGED uiVars /\ \E c \in FinishCalls : Finish(c)

SpecFinish == InitFinish /\ [][NextFinish]_vars

\* ------------------------------------------------------------------ properties of start
Resolves(flowVersionId, collectionVersionId) ==
  /\ flowVersionService_getOne(flowVersionId) # NoFlowVersion
  /\ collectionVersionService_getOne(collectionVersionId) # NoCollectionVersion
  /\ collectionService_getOne(
       collectionVersionService_getOne(collectionVersionId).collectionId) # NoCollection

\* The error of the first lookup that fails, in the order flow version,
\* collection version, collection; NoError when all three resolve.
FirstLookupFailure(flowVersionId, collectionVersionId) ==
  IF flowVersionService_getOne(flowVersionId) = NoFlowVersion
  THEN [code |-> "FLOW_VERSION_NOT_FOUND", id |-> flowVersionId]
  ELSE IF collectionVersionService_getOne(collectionVersionId) = NoCollectionVersion
  THEN [code |-> "COLLECTION_VERSION_NOT_FOUND", id |-> collectionVersionId]
  ELSE IF ~Resolves(flowVersionId, collectionVersionId)
  THEN [code |-> "COLLECTION_NOT_FOUND",
        id |-> collectionVersionService_getOne(collectionVersionId).collectionId]
  ELSE NoError

\* C1: a start call whose three lookups resolve returns a Run that getOne
\* returns, with status RUNNING, a start time, no finish time and no logs
\* reference, whose projectId, flowId and collectionId are those of the
\* resolved collection, flow version and collection version.
C1_StartReturnsRunningRun ==
  \A c \in StartCalls :
    st[c].pc = "returned" =>
      LET r == st[c].result
          cv == collectionVersionService_getOne(st[c].collectionVersionId)
      IN /\ Resolves(st[c].flowVersionId, st[c].collectionVersionId)
         /\ r.id # NoSuchId
         /\ getOne(store, r.id) = r
         /\ r.status = RUNNING
         /\ r.startTime \in Times
         /\ r.finishTime = NoTime
         /\ r.logsFileId = Null
         /\ r.instanceId = st[c].instanceId
         /\ r.projectId = collectionService_getOne(cv.collectionId).projectId
         /\ r.flowId = flowVersionService_getOne(st[c].flowVersionId).flowId
         /\ r.collectionId = cv.collectionId

C1_Witness ==
  \E c \in StartCalls :
    /\ st[c].pc = "returned"
    /\ st[c].result.projectId = "p1"
    /\ st[c].result.flowId = "f1"
    /\ st[c].result.collectionId = "c1"

\* C2: a start call with a failing lookup saves no run and dispatches no side
\* effect: it ends with the error of the first failing lookup, carrying the
\* id looked up, and the stored runs and the dispatched side effects are
\* exactly those of the calls that saved a run.
C2_LookupFailurePersistsNothing ==
  /\ \A c \in StartCalls :
       (st[c].pc # "idle"
          /\ FirstLookupFailure(st[c].flowVersionId, st[c].collectionVersionId) # NoError)
       => /\ st[c].pc \in {"getFlowVersion", "getCollectionVersion",
                           "getCollection", "threw"}
          /\ st[c].savedFlowRun = NoRun
          /\ st[c].result = NoRun
          /\ st[c].pc = "threw" =>
               st[c].error = FirstLookupFailure(st[c].flowVersionId,
                                                st[c].collectionVersionId)
  /\ DOMAIN store = {st[c].savedFlowRun.id :
                       c \in {d \in StartCalls : st[d].savedFlowRun # NoRun}}
  /\ DOMAIN sideEffects \subseteq DOMAIN store

C2_Witness ==
  /\ \E c \in StartCalls :
       /\ st[c].pc = "threw"
       /\ st[c].error = [code |-> "COLLECTION_NOT_FOUND", id |-> "c3"]
  /\ \E c \in StartCalls :
       /\ st[c].pc = "threw"
       /\ st[c].error = [code |-> "FLOW_VERSION_NOT_FOUND", id |-> "fvX"]
       /\ st[c].collectionVersionId = "cvX"
  /\ store = <<>>

\* C3: the begin-execution side effect has been dispatched only for runs that
\* getOne returns, and it was handed the run as stored, with status RUNNING.
C3_DispatchAfterPersist ==
  \A id \in DOMAIN sideEffects :
    /\ getOne(store, id) # NoRun
    /\ sideEffects[id].flowRun = getOne(store, id)
    /\ sideEffects[id].flowRun.status = RUNNING

C3_Witness ==
  /\ \E id \in DOMAIN sideEffects : got = [id |-> id, result |-> store[id]]
  /\ \E c \in StartCalls : st[c].pc = "sideEffect"

\* C4: the settling of the dispatch, resolved or rejected, leaves the store
\* as it is: the run start saved is still there, unchanged and RUNNING.
C4_DispatchOutcomeKeepsRun ==
  [][\A c \in StartCalls :
       (st[c].pc = "awaitSideEffect" /\ st'[c].pc # "awaitSideEffect")
       => /\ store' = store
          /\ getOne(store', st[c].savedFlowRun.id) = st[c].savedFlowRun
          /\ getOne(store', st[c].savedFlowRun.id).status = RUNNING]_vars

C4_Witness ==
  \E c \in StartCalls :
    /\ st[c].pc = "threw"
    /\ st[c].error = SideEffectError
    /\ sideEffects[st[c].savedFlowRun.id].promise = "rejected"
    /\ getOne(store, st[c].savedFlowRun.id).status = RUNNING

SavedAs(id) ==
  LET c == CHOOSE d \in StartCalls : st[d].savedFlowRun.id = id IN st[c].savedFlowRun

\* The finish calls on run id whose update has been applied.
Applied(id) ==
  {c \in FinishCalls : fin[c].flowRunId = id /\ fin[c].pc \in {"getOne", "returned"}}

\* C6: a finish call on an existing run, the only finish call made on that
\* run, leaves the stored run with the status and the logs reference given, a
\* finish time not before its start time and its other fields as saved, and
\* returns that run.
C6_FinishAloneUpdatesRun ==
  \A c \in FinishCalls :
    (/\ fin[c].pc = "returned"
     /\ fin[c].flowRunId \in DOMAIN store
     /\ \A d \in FinishCalls \ {c} :
          fin[d].pc = "idle" \/ fin[d].flowRunId # fin[c].flowRunId)
    => LET r == store[fin[c].flowRunId] IN
         /\ r.status = fin[c].status
         /\ r.logsFileId = fin[c].logsFileId
         /\ r.finishTime \in Times
         /\ r.finishTime >= r.startTime
         /\ [r EXCEPT !.status = RUNNING, !.logsFileId = Null,
                      !.finishTime = NoTime] = SavedAs(r.id)
         /\ fin[c].result = r

C6_Witness ==
  \E c \in FinishCalls :
    /\ fin[c].pc = "returned"
    /\ \A d \in FinishCalls \ {c} : fin[d].pc = "idle"
    /\ fin[c].result.id = 1
    /\ fin[c].result.status = SUCCEEDED
    /\ fin[c].result.logsFileId = "L2"
    /\ fin[c].result.startTime = 1

\* C7: a finish call on an id no stored run has writes nothing in any of its
\* steps, and returns the not-found result.
C7_FinishUnknownIdWritesNothing ==
  [][\A c \in FinishCalls :
       (fin[c].pc # "idle" /\ fin[c].flowRunId \notin DOMAIN store
          /\ fin'[c] # fin[c])
       => /\ store' = store
          /\ fin'[c].pc = "returned" => fin'[c].result = NoRun]_vars

C7_Witness ==
  \E c \in FinishCalls :
    /\ fin[c].pc = "returned"
    /\ fin[c].flowRunId = NoSuchId
    /\ fin[c].result = NoRun
    /\ store[1].status = RUNNING

Set(r) == r.finishTime # NoTime /\ r.logsFileId # Null
Unset(r) == r.finishTime = NoTime /\ r.logsFileId = Null

C9_ListPage ==
  /\ Len(page.data) <= page.limit
  /\ \A k \in 1..Len(page.data) :
       /\ page.data[k].projectId = page.projectId
       /\ page.data[k].instanceId # Null
  /\ \A k, l \in 1..Len(page.data) :
       k < l => page.data[k].created >= page.data[l].created

C9_Witness ==
  /\ Cardinality(ListQuery(store, "p1")) = 2
  /\ \E i \in DOMAIN store : store[i].created = 0
  /\ \E i \in DOMAIN store : store[i].created = 1
  /\ page.projectId = "p1"
  /\ page.limit = 1
  /\ Len(page.data) = 1
  /\ page.data[1].created = 1

\* ------------------------------------------------------------------ test-flow widget
MaxFetches == 4
PaymentRequired == 402
InternalServerError == 500
QuotaMessage ==
  "You reached the maximum runs number allowed. Contact support to discuss your plan."
GenericMessage == "Instance run failed, please check your console."

\* The run of the submission: the one the server's start call returned.
TestRun == st[1].result

\* canvasActions.setRun({run}) / canvasActions.exitRun()
NoCurrentRun == [run |-> NoRun, state |-> Null]
SetRun(value) ==
  /\ dispatches' = Append(dispatches, [type |-> "setRun", run |-> value])
  /\ currentRun' = value
ExitRun ==
  /\ dispatches' = Append(dispatches, [type |-> "exitRun", run |-> NoCurrentRun])
  /\ currentRun' = NoCurrentRun

\* The two switchMaps complete once interval has been cut and no inner
\* request is left in flight.
CheckerAfter(interval, get, log) ==
  IF ~interval /\ ~get /\ log = NoRun THEN "completed" ELSE "on"

\* executeTest, tap next: the submission has answered with the run.
ExecuteNext ==
  /\ executeTest = "pending"
  /\ executeTest' = "next"
  /\ SetRun([run |-> TestRun, state |-> Null])
  /\ checker' = "on"
  /\ intervalOn' = TRUE
  /\ UNCHANGED emitted
  /\ UNCHANGED <<backendVars, messages, console, getReq, logReq, exitClicked,
                 polled, fetches, logFetches>>

\* A variant in which every failed submission shows the generic message.
ExecuteError_AlwaysGeneric(status) ==
  /\ executeTest = "pending"
  /\ executeTest' = "failed"
  /\ console' = console \o <<status, status>>
  /\ messages' = messages \cup {GenericMessage}
  /\ ExitRun
  /\ UNCHANGED <<backendVars, checker, intervalOn, emitted, getReq, logReq,
                 exitClicked, polled, fetches, logFetches>>

\* executeTest, catchError: the submission has failed with err.status.
ExecuteError(status) ==
  /\ executeTest = "pending"
  /\ executeTest' = "failed"
  /\ console' = console \o <<status, status>>
  /\ messages' = messages \cup
       {IF status = PaymentRequired THEN QuotaMessage ELSE GenericMessage}
  /\ ExitRun
  /\ UNCHANGED <<backendVars, checker, intervalOn, emitted, getReq, logReq,
                 exitClicked, polled, fetches, logFetches>>

\* interval(1500) emits: the first switchMap drops the get in flight, if any,
\* and issues instanceRunService.get(runId).
IntervalTick ==
  /\ checker = "on"
  /\ intervalOn
  /\ fetches < MaxFetches
  /\ emitted' = (emitted + 1) % 2
  /\ getReq' = TRUE
  /\ fetches' = fetches + 1
  /\ UNCHANGED <<backendVars, executeTest, currentRun, dispatches, messages,
                 console, checker, intervalOn, logReq, exitClicked, polled,
                 logFetches>>

\* A variant in which the exit button leaves interval running.
ExitButtonClicked_KeepsInterval ==
  /\ executeTest = "next"
  /\ ~exitClicked
  /\ exitClicked' = TRUE
  /\ UNCHANGED <<backendVars, executeTest, currentRun, dispatches, messages,
                 console, checker, intervalOn, emitted, getReq, logReq, polled,
                 fetches, logFetches>>

\* takeUntil(exitButtonClicked): interval is cut; the inner requests in flight
\* stay subscribed.
ExitButtonClicked ==
  /\ executeTest = "next"
  /\ ~exitClicked
  /\ exitClicked' = TRUE
  /\ intervalOn' = FALSE
  /\ UNCHANGED emitted
  /\ checker' = IF checker = "on" THEN CheckerAfter(FALSE, getReq, logReq)
                ELSE checker
  /\ UNCHANGED <<backendVars, executeTest, currentRun, dispatches, messages,
                 console, getReq, logReq, polled, fetches, logFetches>>

\* A variant in which tap publishes every run, RUNNING ones too.
Emit_PublishesRunning(value, get, log) ==
  /\ SetRun(value)
  /\ UNCHANGED emitted
  /\ IF value.run.status = RUNNING \/ value.run.status = PAUSED
     THEN /\ checker' = CheckerAfter(intervalOn, get, log)
          /\ getReq' = get
          /\ logReq' = log
          /\ UNCHANGED intervalOn
     ELSE /\ checker' = "completed"
          /\ intervalOn' = FALSE
          /\ getReq' = FALSE
          /\ logReq' = NoRun

\* A value leaves the second switchMap: tap dispatches setRun unless the run
\* is RUNNING, takeWhile goes on while it is RUNNING or PAUSED and ends the
\* whole chain otherwise. get and log are the requests left in flight.
Emit(value, get, log) ==
  /\ IF value.run.status # RUNNING
     THEN SetRun(value)
     ELSE UNCHANGED <<dispatches, currentRun>>
  /\ UNCHANGED emitted
  /\ IF value.run.status = RUNNING \/ value.run.status = PAUSED
     THEN /\ checker' = CheckerAfter(intervalOn, get, log)
          /\ getReq' = get
          /\ logReq' = log
          /\ UNCHANGED intervalOn
     ELSE /\ checker' = "completed"
          /\ intervalOn' = FALSE
          /\ getReq' = FALSE
          /\ logReq' = NoRun

\* instanceRunService.get(runId) answers: the second switchMap drops the log
\* load in flight, if any, and either loads the logs of the run or passes the
\* run on.
GetResponse ==
  /\ checker = "on"
  /\ getReq
  /\ LET instanceRun == getOne(store, TestRun.id) IN
       /\ polled' = Append(polled, instanceRun.status)
       /\ IF instanceRun.status # RUNNING /\ instanceRun.logsFileId # Null
          THEN /\ logReq' = instanceRun
               /\ logFetches' = logFetches + 1
               /\ getReq' = FALSE
               /\ UNCHANGED <<checker, intervalOn, emitted, dispatches, currentRun>>
          ELSE /\ Emit([run |-> instanceRun, state |-> Null], FALSE, NoRun)
               /\ UNCHANGED logFetches
  /\ UNCHANGED <<backendVars, executeTest, messages, console, exitClicked, fetches>>

\* flowService.loadStateLogs(logsFileId) answers: the run merged with the
\* state is passed on.
LogResponse ==
  /\ checker = "on"
  /\ logReq # NoRun
  /\ Emit([run |-> logReq, state |-> [file |-> logReq.logsFileId]], getReq, NoRun)
  /\ UNCHANGED <<backendVars, executeTest, messages, console, exitClicked, polled,
                 fetches, logFetches>>

\* instanceRunService.get or loadStateLogs fails: the error ends the chain;
\* setStatusChecker catches nothing.
GetError ==
  /\ checker = "on"
  /\ getReq
  /\ checker' = "errored"
  /\ intervalOn' = FALSE
  /\ UNCHANGED emitted
  /\ getReq' = FALSE
  /\ logReq' = NoRun
  /\ UNCHANGED <<backendVars, executeTest, currentRun, dispatches, messages,
                 console, exitClicked, polled, fetches, logFetches>>

LogError ==
  /\ checker = "on"
  /\ logReq # NoRun
  /\ checker' = "errored"
  /\ intervalOn' = FALSE
  /\ UNCHANGED emitted
  /\ getReq' = FALSE
  /\ logReq' = NoRun
  /\ UNCHANGED <<backendVars, executeTest, currentRun, dispatches, messages,
                 console, exitClicked, polled, fetches, logFetches>>

\* The statuses takeWhile ends the chain on.
Terminal == ExecutionOutputStatus \ NonTerminal

\* The widget after the test button was clicked, the server's start call
\* having returned the run (saved at the latest time of the clock), and the
\* executor reporting the run's outcome through finish.
ExecutorStatuses == {PAUSED, SUCCEEDED}

InitUI ==
  \E t \in {MaxTime} :
    /\ executeTest = "pending"
    /\ currentRun = NoCurrentRun
    /\ dispatches = <<>>
    /\ messages = {}
    /\ console = <<>>
    /\ checker = "off"
    /\ intervalOn = FALSE
    /\ emitted = 1
    /\ getReq = FALSE
    /\ logReq = NoRun
    /\ exitClicked = FALSE
    /\ polled = <<>>
    /\ fetches = 0
    /\ logFetches = 0
    /\ store = save(<<>>, StartedRun(t), t)
    /\ now = t
    /\ st = [c \in StartCalls |-> IF c = 1 THEN ReturnedStart(t) ELSE IdleStart]
    /\ fin = [c \in FinishCalls |-> IdleFinish]
    /\ sideEffects = Settle(Dispatch(<<>>, StartedRun(t), "pl1"),
                            StartedRun(t).id, "resolved")
    /\ got = [id |-> NoSuchId, result |-> NoRun]
    /\ page = [projectId |-> Null, limit |-> 0, data |-> <<>>]

NextUI ==
  \/ ExecuteNext
  \/ \E status \in {PaymentRequired, InternalServerError} : ExecuteError(status)
  \/ IntervalTick
  \/ ExitButtonClicked
  \/ GetResponse
  \/ LogResponse
  \/ GetError
  \/ LogError
  \/ UNCHANGED uiVars /\ \E c \in FinishCalls, status \in ExecutorStatuses :
       FinishCall(c, TestRun.id, status, "L1")
  \/ UNCHANGED uiVars /\ \E c \in FinishCalls : FinishUpdate(c)
  \/ UNCHANGED uiVars /\ \E c \in FinishCalls : FinishGetOne(c)

SpecUI == InitUI /\ [][NextUI]_vars

\* interval(1500) emits beyond the polls the model counts, a get being in
\* flight: the first switchMap drops that get and issues the next one.
IntervalTickSwitch ==
  /\ checker = "on"
  /\ intervalOn
  /\ fetches = MaxFetches
  /\ getReq
  /\ emitted' = (emitted + 1) % 2
  /\ UNCHANGED <<backendVars, executeTest, currentRun, dispatches, messages,
                 console, checker, intervalOn, getReq, logReq, exitClicked,
                 polled, fetches, logFetches>>

\* The widget when the submission succeeds, no fetch fails and the exit button
\* is never clicked, the executor finishing the run with a terminal status.
\* interval keeps emitting; a get is answered unless the next emission drops
\* it first, a log load is answered unless the next run drops it first.
NextUILive ==
  \/ ExecuteNext
  \/ IntervalTick
  \/ IntervalTickSwitch
  \/ GetResponse
  \/ LogResponse
  \/ UNCHANGED uiVars /\ \E c \in FinishCalls, status \in Terminal :
       FinishCall(c, TestRun.id, status, "L1")
  \/ UNCHANGED uiVars /\ \E c \in FinishCalls : FinishUpdate(c)
  \/ UNCHANGED uiVars /\ \E c \in FinishCalls : FinishGetOne(c)

SpecUILive ==
  /\ InitUI
  /\ [][NextUILive]_vars
  /\ WF_vars(ExecuteNext)
  /\ WF_vars(IntervalTick \/ IntervalTickSwitch)
  /\ \A i \in 0..1 : WF_vars(GetResponse /\ emitted = i)
  /\ \A n \in 1..MaxFetches : WF_vars(LogResponse /\ logFetches = n)
  /\ \A c \in FinishCalls :
       WF_vars(UNCHANGED uiVars /\ (FinishUpdate(c) \/ FinishGetOne(c)))

\* ------------------------------------------------------------------ properties of the poller
\* C10 as stated: once instanceRunService.get has delivered a run with a
\* terminal status, no further instanceRunService.get is issued.
C10_Original ==
  [][(\E i \in DOMAIN polled : polled[i] \in Terminal) => fetches' = fetches]_vars

\* C11: once the exit button of the test-run snackbar has been clicked, no
\* further instanceRunService.get is issued, whatever the status of the run.
C11_NoFetchAfterExit ==
  [][exitClicked => fetches' = fetches]_vars

\* The exit button was clicked while the poller was polling a run still
\* RUNNING, with polls left to issue.
C11_Witness ==
  /\ exitClicked
  /\ fetches >= 1
  /\ fetches < MaxFetches
  /\ getOne(store, TestRun.id).status = RUNNING

\* instanceRunService.get has delivered RUNNING, RUNNING and then a terminal
\* status (the run then carries a logs file: finish always stores one).
RunningRunningTerminal ==
  /\ Len(polled) >= 3
  /\ polled[1] = RUNNING
  /\ polled[2] = RUNNING
  /\ polled[3] \in Terminal
  /\ getOne(store, TestRun.id).logsFileId # Null

\* C12 as stated: when the fetched status goes RUNNING, RUNNING, terminal with
\* a logs file, loadStateLogs is called exactly once, and the chain completes
\* with the terminal run merged with its logs as the current run.
C12_Original ==
  RunningRunningTerminal =>
    /\ logFetches = 1
    /\ checker = "completed" =>
         /\ currentRun.run.status \in Terminal
         /\ currentRun.state = [file |-> currentRun.run.logsFileId]

\* C13: when the submission has failed, setStatusChecker was never called (no
\* instanceRunService.get, no loadStateLogs), the only dispatch is exitRun,
\* which clears the current run, and the message shown is the quota message
\* when err.status is PaymentRequired and the generic message otherwise.
C13_SubmissionFailure ==
  executeTest = "failed" =>
    /\ checker = "off"
    /\ fetches = 0
    /\ logFetches = 0
    /\ dispatches = <<[type |-> "exitRun", run |-> NoCurrentRun]>>
    /\ currentRun = NoCurrentRun
    /\ messages = {IF console[1] = PaymentRequired THEN QuotaMessage
                   ELSE GenericMessage}

\* The submission has failed with PaymentRequired, and the run has been
\* finished by the executor since.
C13_Witness ==
  /\ executeTest = "failed"
  /\ console[1] = PaymentRequired
  /\ getOne(store, TestRun.id).status = SUCCEEDED

\* C14 as stated: once instanceRunService.get or loadStateLogs has failed, the
\* current run is rolled back: it is a terminal run or the cleared state of
\* exitRun. (The errored chain dispatches nothing more, so the current run of
\* such a state is the one the widget leaves for good.)
C14_Original ==
  checker = "errored" =>
    \/ currentRun = NoCurrentRun
    \/ currentRun.run.status \in Terminal

\* C15 as stated: once the executor's finish has stored a terminal status,
\* polls being left to issue, the poller eventually publishes the terminal
\* run and completes, whatever the time the answers take.
C15_Original ==
  (getOne(store, TestRun.id).status \in Terminal /\ fetches < MaxFetches)
    ~> (checker = "completed" /\ currentRun.run.status \in Terminal)

\* The dispatches of the poller: those after the setRun of the submission.
PollerDispatches == {i \in DOMAIN dispatches : i >= 2}

\* C16 as stated: the poller dispatches setRun only for runs of a terminal
\* status, neither RUNNING nor PAUSED.
C16_Original ==
  \A i \in PollerDispatches :
    dispatches[i].type = "setRun" => dispatches[i].run.run.status \in Terminal

\* C16, amended: the poller dispatches setRun only for runs that are not
\* RUNNING, at most one for each such run delivered, and a PAUSED run is
\* published once its logs are loaded (polling going on).
C16_SetRunUnlessRunning ==
  /\ \A i \in PollerDispatches :
       /\ dispatches[i].type = "setRun"
       /\ dispatches[i].run.run.status # RUNNING
       /\ \E j \in DOMAIN polled : polled[j] = dispatches[i].run.run.status
  /\ Cardinality(PollerDispatches)
       <= Cardinality({j \in DOMAIN polled : polled[j] # RUNNING})
  /\ (/\ polled # <<>>
      /\ polled[Len(polled)] = PAUSED
      /\ logReq = NoRun
      /\ checker # "errored")
     => currentRun.run.status = PAUSED

\* A PAUSED run was delivered after a RUNNING one and published, the poller
\* still polling.
C16_Witness ==
  /\ Len(polled) >= 2
  /\ polled[1] = RUNNING
  /\ polled[Len(polled)] = PAUSED
  /\ Len(dispatches) >= 2
  /\ dispatches[Len(dispatches)].run.run.status = PAUSED
  /\ checker = "on"

\* ------------------------------------------------------------------ properties of interleaved finish calls
\* Call c applies its update / re-reads the run in this step.
Updates(c) == fin[c].pc = "update" /\ fin'[c].pc = "getOne"
Rereads(c) == fin[c].pc = "getOne" /\ fin'[c].pc = "returned"

\* C17 as stated: when two finish calls on the same stored run have both
\* returned, the stored status and logs reference are those of one of the
\* two calls, and each call has returned a run with its own status and logs
\* reference.
C17_Original ==
  \A c, d \in FinishCalls :
    (/\ c # d
     /\ fin[c].pc = "returned" /\ fin[d].pc = "returned"
     /\ fin[c].flowRunId = fin[d].flowRunId
     /\ fin[c].flowRunId \in DOMAIN store)
    => /\ \E e \in {c, d} :
            /\ store[fin[c].flowRunId].status = fin[e].status
            /\ store[fin[c].flowRunId].logsFileId = fin[e].logsFileId
       /\ fin[c].result.status = fin[c].status
       /\ fin[c].result.logsFileId = fin[c].logsFileId

\* C17, amended: the stored run changes only when a finish call applies its
\* update, which writes the status, the logs reference and the finish time
\* of that one call together, so the stored values are those of the update
\* applied last; a finish call returns the run as stored when it re-reads
\* it, with the values of the update applied last by then.
C17_FinishLastWriteWins ==
  [][/\ \A c \in FinishCalls :
          fin[c].flowRunId \in DOMAIN store =>
            /\ Updates(c) =>
                 /\ store'[fin[c].flowRunId].status = fin[c].status
                 /\ store'[fin[c].flowRunId].logsFileId = fin[c].logsFileId
                 /\ store'[fin[c].flowRunId].finishTime = now'
            /\ Rereads(c) =>
                 /\ fin'[c].result = store[fin[c].flowRunId]
                 /\ store' = store
     /\ store' # store => \E c \in FinishCalls : Updates(c)]_vars

\* Two finish calls on run 1 have interleaved: the first to update has
\* returned the status and the logs reference of the other.
C17_Witness ==
  \E c, d \in FinishCalls :
    /\ fin[c].pc = "returned" /\ fin[d].pc = "returned"
    /\ fin[c].flowRunId = 1 /\ fin[d].flowRunId = 1
    /\ fin[c].status = SUCCEEDED /\ fin[c].logsFileId = "L1"
    /\ fin[d].status = FAILED /\ fin[d].logsFileId = "L2"
    /\ fin[c].result = store[1]
    /\ fin[d].result = store[1]
    /\ store[1].status = FAILED /\ store[1].logsFileId = "L2"

\* C18 as stated: a stored run of a terminal status keeps that status in
\* every step.
C18_Original ==
  [][\A id \in DOMAIN store :
       store[id].status \in Terminal => store'[id].status = store[id].status]_vars

\* ------------------------------------------------------------------ properties of repeated finish calls
\* Calls c and d are the two finish calls made, with the same arguments, on a
\* stored run, and both have returned.
SameFinishTwice(c, d) ==
  /\ c # d
  /\ fin[c].pc = "returned" /\ fin[d].pc = "returned"
  /\ fin[c].flowRunId \in DOMAIN store
  /\ fin[d].flowRunId = fin[c].flowRunId
  /\ fin[d].status = fin[c].status
  /\ fin[d].logsFileId = fin[c].logsFileId
  /\ \A e \in FinishCalls \ {c, d} : fin[e].pc = "idle"

C20_Original ==
  [][exitClicked =>
       /\ dispatches' = dispatches
       /\ currentRun' = currentRun
       /\ logFetches' = logFetches]_vars

====
